---------------------------- MODULE Spec2Model ----------------------------
(***************************************************************************)
(* Reflector and Cache of bmsf-mesos-adapter/pkg/cache/reflector.go.       *)
(*                                                                         *)
(* Spec      : the Reflector (Run, Stop, listAllData, handleWatch,         *)
(*             processAddUpdate, processDeletion) acting on one Cache.     *)
(*             Every Cache method holds the Cache's lock for the whole of  *)
(*             its access to dataMap, so one call is one step here.        *)
(* FairSpec  : Spec with the scheduling of goroutines and of select.       *)
(* SpecStore : concurrent callers of the Cache methods, lock by lock.      *)
(* SpecAddN  : concurrent callers adding objects with distinct keys.       *)
(***************************************************************************)
EXTENDS Integers, Sequences, FiniteSets, TLC

(* ------------------------------ bounds -------------------------------- *)
\* longest result of one ListerWatcher.List call
MaxListLen == 2
\* calls of List (full synchronisation passes) before the resync ticker goes
\* quiet
MaxLists == 2
\* events the backend delivers over all subscriptions
MaxEvents == 2
\* handleWatch goroutines that exist at the same time
MaxWatchers == 2
\* concurrent callers of the Cache
NumCallers == 2
\* longest list given to Replace or Reset
MaxItems == 2
\* most Add calls one caller issues in SpecAddN
MaxAdds == 2
\* calls of List in the fair specification
FairLists == 2
\* events the backend delivers in the fair specification
FairEvents == 1
\* longest result of List in the fair specification
FairListLen == 1

(* ------------------------------ objects ------------------------------- *)
\* keys the caller-supplied ObjectKeyFunc yields
Keys == {"a", "b"}

\* the key of an object the ObjectKeyFunc fails on
NoKey == "nokey"

\* An object is what the ObjectKeyFunc makes of it (key) and whether it
\* carries the annotation bk-bcs-inner-storage = bkbcs-zookeeper (zk); the
\* two objects of key "a" differ in zk.
Objects ==
    {o \in [key : Keys \cup {NoKey}, zk : BOOLEAN] : o.zk => o.key = "a"}

\* the objects the backend lists and sends in events
BackendObjects == {o \in Objects : o.key \in {"a", NoKey}}

\* the nil interface value
Nil == [key |-> "nil", zk |-> FALSE]

\* keyFunc(obj) returns an error
KeyFails(obj) == obj.key = NoKey

\* keyFunc(obj), the key
keyFunc(obj) == obj.key

\* event.Data.GetAnnotations()["bk-bcs-inner-storage"] == "bkbcs-zookeeper"
IsZookeeper(obj) == obj.zk

\* the map with key k set to obj
MapPut(m, k, obj) ==
    [x \in (DOMAIN m) \cup {k} |-> IF x = k THEN obj ELSE m[x]]

\* the map without key k
MapDel(m, k) == [x \in (DOMAIN m) \ {k} |-> m[x]]

\* make(map[string]interface{})
EmptyMap == [x \in {} |-> Nil]

(* --------------------------- Cache methods ---------------------------- *)
\* Each yields the new dataMap and what the method returns.

CacheAddLost(m, obj) ==
    IF KeyFails(obj)
    THEN [map |-> m, err |-> "KeyError"]
    ELSE [map |-> [x \in {keyFunc(obj)} |-> obj], err |-> "nil"]

CacheAdd(m, obj) ==
    IF KeyFails(obj)
    THEN [map |-> m, err |-> "KeyError"]
    ELSE [map |-> MapPut(m, keyFunc(obj), obj), err |-> "nil"]

CacheUpdateKeep(m, obj) ==
    IF KeyFails(obj)
    THEN [map |-> m, err |-> "KeyError"]
    ELSE [map |-> IF keyFunc(obj) \in DOMAIN m THEN m
                  ELSE MapPut(m, keyFunc(obj), obj),
          err |-> "nil"]

CacheUpdate(m, obj) ==
    IF KeyFails(obj)
    THEN [map |-> m, err |-> "KeyError"]
    ELSE [map |-> MapPut(m, keyFunc(obj), obj), err |-> "nil"]

CacheDeleteKeep(m, obj) ==
    IF KeyFails(obj)
    THEN [map |-> m, err |-> "KeyError"]
    ELSE [map |-> m, err |-> "nil"]

CacheDelete(m, obj) ==
    IF KeyFails(obj)
    THEN [map |-> m, err |-> "KeyError"]
    ELSE IF keyFunc(obj) \in DOMAIN m
         THEN [map |-> MapDel(m, keyFunc(obj)), err |-> "nil"]
         ELSE [map |-> m, err |-> "DataNoExist"]

CacheGet(m, obj) ==
    IF KeyFails(obj)
    THEN [item |-> Nil, exists |-> FALSE, err |-> "KeyError"]
    ELSE IF keyFunc(obj) \in DOMAIN m
         THEN [item |-> m[keyFunc(obj)], exists |-> TRUE, err |-> "nil"]
         ELSE [item |-> Nil, exists |-> FALSE, err |-> "nil"]

CacheGetByKey(m, key) ==
    IF key \in DOMAIN m
    THEN [item |-> m[key], exists |-> TRUE, err |-> "nil"]
    ELSE [item |-> Nil, exists |-> FALSE, err |-> "nil"]

\* the values, as a set: List returns them in the map's iteration order
CacheList(m) == {m[k] : k \in DOMAIN m}

CacheListKeys(m) == DOMAIN m

CacheNum(m) == Cardinality(DOMAIN m)

CacheClear(m) == EmptyMap

\* the loop of Replace and of Reset from item i on
RECURSIVE FillFrom(_, _, _)
FillFrom(m, list, i) ==
    IF i > Len(list)
    THEN [map |-> m, err |-> "nil"]
    ELSE IF KeyFails(list[i])
         THEN [map |-> m, err |-> "KeyError"]
         ELSE FillFrom(MapPut(m, keyFunc(list[i]), list[i]), list, i + 1)

CacheReplaceClear(m, list) == FillFrom(EmptyMap, list, 1)

CacheReplace(m, list) == FillFrom(m, list, 1)

CacheResetKeep(m, list) == FillFrom(m, list, 1)

CacheReset(m, list) == FillFrom(EmptyMap, list, 1)

(* ------------------------------- state -------------------------------- *)
VARIABLES
    dataMap,     \* Cache.dataMap
    cxtDone,     \* r.cxt is cancelled (watchCxt is derived from it)
    underWatch,  \* Reflector.underWatch
    rpc,         \* where Run is
    rret,        \* where listAllData returns to: "spawn" or "select"
    objs,        \* listAllData: objs, as far as the for loop has got
    rOld,        \* listAllData: oldObj
    rExist,      \* listAllData: exist
    wpc,         \* where each handleWatch goroutine is
    wev,         \* handleWatch: event.Data of the event in hand
    wOld,        \* processAddUpdate / processDeletion: oldObj
    wExist,      \* processAddUpdate / processDeletion: exist
    sub,         \* the subscription each goroutine got from Watch
    recv,        \* the event that the last step took from a channel, if any
    fired,       \* the call of the handler that the last step made, if any
    lost,        \* the last step reported "lost local cache"
    adds,        \* per key, the OnAdd calls since the last OnDelete of the key
    last,        \* per key, the kind of the last handler call for the key
    listsLeft,   \* calls of List still to come
    eventsLeft,  \* events the backend has still to deliver
    listCap,     \* the longest result List gives
    passClean,   \* no watch goroutine wrote dataMap since List returned
    lock,        \* Cache.lock: who holds it
    cpc,         \* where each caller of the Cache is
    cop,         \* the method each caller is in
    carg,        \* its argument, while the call lasts
    cret,        \* what its last call returned
    todo,        \* SpecAddN: the objects each caller adds, in order
    done         \* SpecAddN: how many of them each caller has added

hvars == <<recv, fired, lost, adds, last>>

rvars == <<cxtDone, underWatch, rpc, rret, objs, rOld, rExist, wpc, wev, wOld,
           wExist, sub, hvars, listsLeft, eventsLeft, listCap, passClean>>

svars == <<lock, cpc, cop, carg, cret, todo, done>>

vars == <<dataMap, rvars, svars>>

Watchers == 1 .. MaxWatchers

\* NewReflector is given a handler
HandlerSet == TRUE

EventTypes == {"Sync", "Added", "Updated", "Deleted", "Err"}

\* one call of the handler: OnAdd(obj), OnUpdate(old, obj) or OnDelete(obj)
Entry(op, old, obj) == [op |-> op, old |-> old, obj |-> obj]

NoEntry == Entry("none", Nil, Nil)

\* r.handler.OnAdd / OnUpdate / OnDelete, when r.handler != nil
Fire(e) ==
    IF HandlerSet
    THEN /\ fired' = e
         /\ adds' = [adds EXCEPT ![keyFunc(e.obj)] =
                        IF e.op = "add" THEN @ + 1
                        ELSE IF e.op = "delete" THEN 0 ELSE @]
         /\ last' = [last EXCEPT ![keyFunc(e.obj)] = e.op]
    ELSE /\ fired' = NoEntry
         /\ UNCHANGED <<adds, last>>

\* a step that does not call the handler
Quiet == fired' = NoEntry /\ UNCHANGED <<adds, last>>

\* blog.Errorf("reflector %s lost local cache for %s/%s")
ReportLost == lost' = TRUE

\* a step that does not report it
NoReport == lost' = FALSE

\* an event of the watch channel
Event(t, d) == [type |-> t, data |-> d]

NoEvent == Event("none", Nil)

\* a step that takes no event from a channel
NoRecv == recv' = NoEvent

\* a step that takes no event, does not call the handler and does not report
Silent == NoRecv /\ Quiet /\ NoReport

\* sync.RWMutex, unlocked: who holds Lock and who holds RLock
NoLock == [writers |-> {}, readers |-> {}]

(* ------------------------- NewReflector, NewCache --------------------- *)
InitReflector ==
    /\ cxtDone = FALSE
    /\ underWatch = FALSE
    /\ rpc = "idle"
    /\ rret = "spawn"
    /\ objs = <<>>
    /\ rOld = Nil
    /\ rExist = FALSE
    /\ wpc = [w \in Watchers |-> "none"]
    /\ wev = [w \in Watchers |-> Nil]
    /\ wOld = [w \in Watchers |-> Nil]
    /\ wExist = [w \in Watchers |-> FALSE]
    /\ sub = [w \in Watchers |-> "none"]
    /\ recv = NoEvent
    /\ fired = NoEntry
    /\ adds = [k \in Keys |-> 0]
    /\ last = [k \in Keys |-> "none"]
    /\ lost = FALSE
    /\ listsLeft = MaxLists
    /\ eventsLeft = MaxEvents
    /\ listCap = MaxListLen
    /\ passClean = FALSE

InitCallersIdle ==
    /\ lock = NoLock
    /\ cpc = <<>>
    /\ cop = <<>>
    /\ carg = <<>>
    /\ cret = <<>>
    /\ todo = <<>>
    /\ done = <<>>

Init ==
    /\ dataMap = EmptyMap
    /\ InitReflector
    /\ InitCallersIdle

(* ---------------------------- listAllData ----------------------------- *)
\* The for loop of listAllData reads objs front to back and nothing else
\* reads it, so the model draws each element of List's result when the loop
\* reaches it: objs has the length of the result, its elements are drawn as
\* far as the loop has got, the others are still Nil, and the obj of the loop
\* is the last one drawn.
Reached == Cardinality({i \in 1 .. Len(objs) : objs[i] # Nil})

Obj == objs[Reached]

\* a result of List of n objects of which the loop has reached the first, o
Fresh(o, n) == [i \in 1 .. n |-> IF i = 1 THEN o ELSE Nil]

PassReturnStop(to) ==
    /\ rpc' = "returned"
    /\ objs' = <<>>
    /\ rOld' = Nil
    /\ rExist' = FALSE
    /\ passClean' = FALSE

\* listAllData returns to the place in Run that called it
PassReturnTo(to) ==
    /\ rpc' = to
    /\ objs' = <<>>
    /\ rOld' = Nil
    /\ rExist' = FALSE
    /\ passClean' = FALSE

\* listAllData returns from its loop
PassReturn == PassReturnTo(rret)

\* for _, obj := range objs: the next obj, or the end of objs
PassNext ==
    IF Reached < Len(objs)
    THEN /\ \E o \in BackendObjects : objs' = [objs EXCEPT ![Reached + 1] = o]
         /\ rpc' = "get"
         /\ rOld' = Nil
         /\ rExist' = FALSE
         /\ UNCHANGED passClean
    ELSE PassReturn

\* objs, err := r.listWatch.List(), and the return on err
ListCall(to) ==
    /\ listsLeft > 0
    /\ listsLeft' = listsLeft - 1
    /\ rret' = to
    /\ \/ PassReturnTo(to)
       \/ /\ \E o \in BackendObjects : \E n \in 1 .. listCap :
                objs' = Fresh(o, n)
          /\ rpc' = "get"
          /\ passClean' = TRUE
          /\ UNCHANGED <<rOld, rExist>>
    /\ UNCHANGED <<dataMap, cxtDone, underWatch, wpc, wev, wOld, wExist, sub,
                   eventsLeft, listCap, svars>>
    /\ Silent

ListGetAbort ==
    /\ rpc = "get"
    /\ LET g == CacheGet(dataMap, Obj)
       IN  IF g.err # "nil"
           THEN PassReturn
           ELSE /\ rOld' = g.item
                /\ rExist' = g.exists
                /\ rpc' = "put"
                /\ UNCHANGED <<objs, passClean>>
    /\ UNCHANGED <<dataMap, cxtDone, underWatch, rret, wpc, wev, wOld, wExist,
                   sub, listsLeft, listCap, eventsLeft, svars>>
    /\ Silent

\* oldObj, exist, err := r.store.Get(obj), and the continue on err
ListGet ==
    /\ rpc = "get"
    /\ LET g == CacheGet(dataMap, Obj)
       IN  IF g.err # "nil"
           THEN PassNext
           ELSE /\ rOld' = g.item
                /\ rExist' = g.exists
                /\ rpc' = "put"
                /\ UNCHANGED <<objs, passClean>>
    /\ UNCHANGED <<dataMap, cxtDone, underWatch, rret, wpc, wev, wOld, wExist,
                   sub, listsLeft, listCap, eventsLeft, svars>>
    /\ Silent

ListPutDrop ==
    /\ rpc = "put"
    /\ dataMap' = CacheDelete(dataMap, Obj).map
    /\ rpc' = "notify"
    /\ UNCHANGED <<cxtDone, underWatch, rret, objs, rOld, rExist, wpc, wev,
                   wOld, wExist, sub, listsLeft, listCap, eventsLeft,
                   passClean, svars>>
    /\ Silent

\* r.store.Update(obj) or r.store.Add(obj)
ListPut ==
    /\ rpc = "put"
    /\ dataMap' = IF rExist THEN CacheUpdate(dataMap, Obj).map
                            ELSE CacheAdd(dataMap, Obj).map
    /\ rpc' = "notify"
    /\ UNCHANGED <<cxtDone, underWatch, rret, objs, rOld, rExist, wpc, wev,
                   wOld, wExist, sub, listsLeft, listCap, eventsLeft,
                   passClean, svars>>
    /\ Silent

\* r.handler.OnUpdate(oldObj, obj) or r.handler.OnAdd(obj)
ListNotify ==
    /\ rpc = "notify"
    /\ IF rExist
       THEN Fire(Entry("update", rOld, Obj))
       ELSE Fire(Entry("add", Nil, Obj))
    /\ PassNext
    /\ UNCHANGED <<dataMap, cxtDone, underWatch, rret, wpc, wev, wOld, wExist,
                   sub, listsLeft, listCap, eventsLeft, svars>>
    /\ NoReport
    /\ NoRecv

(* -------------------------------- Run --------------------------------- *)
\* the first free goroutine slot
FreeSlot == CHOOSE w \in Watchers :
                wpc[w] = "none" /\ \A v \in Watchers : wpc[v] = "none" => w <= v

HasFreeSlot == \E w \in Watchers : wpc[w] = "none"

GoNowhere == UNCHANGED wpc

\* go r.handleWatch(watchCxt)
GoHandleWatch == wpc' = [wpc EXCEPT ![FreeSlot] = "check"]

RunStartNoPass ==
    /\ rpc = "idle"
    /\ rpc' = "spawn"
    /\ UNCHANGED <<dataMap, cxtDone, underWatch, rret, objs, rOld, rExist, wpc,
                   wev, wOld, wExist, sub, listsLeft, listCap, eventsLeft,
                   passClean, svars>>
    /\ Silent

\* Run is called: r.listAllData() of line 66
RunStart ==
    /\ rpc = "idle"
    /\ ListCall("spawn")

\* go r.handleWatch(watchCxt) of line 68, then the tickers
RunSpawnFirst ==
    /\ rpc = "spawn"
    /\ HasFreeSlot
    /\ GoHandleWatch
    /\ rpc' = "select"
    /\ UNCHANGED <<dataMap, cxtDone, underWatch, rret, objs, rOld, rExist, wev,
                   wOld, wExist, sub, listsLeft, listCap, eventsLeft,
                   passClean, svars>>
    /\ Silent

\* case <-r.cxt.Done(): return
RunExit ==
    /\ rpc = "select"
    /\ cxtDone
    /\ rpc' = "returned"
    /\ UNCHANGED <<dataMap, cxtDone, underWatch, rret, objs, rOld, rExist, wpc,
                   wev, wOld, wExist, sub, listsLeft, listCap, eventsLeft,
                   passClean, svars>>
    /\ Silent

\* case <-syncTick.C: r.listAllData()
RunSyncTick ==
    /\ rpc = "select"
    /\ ListCall("select")

\* case <-watchTick.C: if r.underWatch { continue }; go r.handleWatch(watchCxt)
RunWatchTick ==
    /\ rpc = "select"
    /\ IF underWatch
       THEN UNCHANGED wpc
       ELSE HasFreeSlot /\ GoHandleWatch
    /\ UNCHANGED <<dataMap, cxtDone, underWatch, rpc, rret, objs, rOld, rExist,
                   wev, wOld, wExist, sub, listsLeft, listCap, eventsLeft,
                   passClean, svars>>
    /\ Silent

StopToggle ==
    /\ cxtDone' = ~cxtDone
    /\ UNCHANGED <<dataMap, underWatch, rpc, rret, objs, rOld, rExist, wpc, wev,
                   wOld, wExist, sub, listsLeft, listCap, eventsLeft,
                   passClean, svars>>
    /\ Silent

\* Stop: r.stopFn()
Stop ==
    /\ cxtDone' = TRUE
    /\ UNCHANGED <<dataMap, underWatch, rpc, rret, objs, rOld, rExist, wpc, wev,
                   wOld, wExist, sub, listsLeft, listCap, eventsLeft,
                   passClean, svars>>
    /\ Silent

(* ----------------------------- handleWatch ---------------------------- *)
\* what a goroutine leaves unchanged whatever it does
WFrame == UNCHANGED <<cxtDone, rpc, rret, objs, rOld, rExist, listsLeft,
                   listCap, svars>>

\* the goroutine is back in the select of its for loop
BackToLoop(w) ==
    /\ wpc' = [wpc EXCEPT ![w] = "loop"]
    /\ wev' = [wev EXCEPT ![w] = Nil]
    /\ wOld' = [wOld EXCEPT ![w] = Nil]
    /\ wExist' = [wExist EXCEPT ![w] = FALSE]

\* if r.underWatch { return }
WCheck(w) ==
    /\ wpc[w] = "check"
    /\ wpc' = [wpc EXCEPT ![w] = IF underWatch THEN "none" ELSE "set"]
    /\ UNCHANGED <<dataMap, underWatch, wev, wOld, wExist, sub, eventsLeft,
                   passClean>>
    /\ WFrame
    /\ Silent

\* r.underWatch = true
WSet(w) ==
    /\ wpc[w] = "set"
    /\ underWatch' = TRUE
    /\ wpc' = [wpc EXCEPT ![w] = "watch"]
    /\ UNCHANGED <<dataMap, wev, wOld, wExist, sub, eventsLeft, passClean>>
    /\ WFrame
    /\ Silent

\* watcher, err := r.listWatch.Watch(), and on err: r.underWatch = false; return
WWatch(w) ==
    /\ wpc[w] = "watch"
    /\ \/ /\ underWatch' = FALSE
          /\ wpc' = [wpc EXCEPT ![w] = "none"]
          /\ sub' = [sub EXCEPT ![w] = "failed"]
       \/ /\ sub' = [sub EXCEPT ![w] = "open"]
          /\ wpc' = [wpc EXCEPT ![w] = "loop"]
          /\ UNCHANGED underWatch
    /\ UNCHANGED <<dataMap, wev, wOld, wExist, eventsLeft, passClean>>
    /\ WFrame
    /\ Silent

\* the deferred func: r.underWatch = false; watcher.Stop()
Deferred(w) ==
    /\ underWatch' = FALSE
    /\ sub' = [sub EXCEPT ![w] = "stopped"]
    /\ wpc' = [wpc EXCEPT ![w] = "none"]

\* case <-cxt.Done(): return
WCancel(w) ==
    /\ wpc[w] = "loop"
    /\ cxtDone
    /\ Deferred(w)
    /\ UNCHANGED <<dataMap, wev, wOld, wExist, eventsLeft, passClean>>
    /\ WFrame
    /\ Silent

WClosedLeak(w) ==
    /\ wpc[w] = "loop"
    /\ wpc' = [wpc EXCEPT ![w] = "none"]
    /\ UNCHANGED <<dataMap, underWatch, sub, wev, wOld, wExist, eventsLeft,
                   passClean>>
    /\ WFrame
    /\ Silent

\* case event, ok := <-channel: if !ok { return }
WClosed(w) ==
    /\ wpc[w] = "loop"
    /\ Deferred(w)
    /\ UNCHANGED <<dataMap, wev, wOld, wExist, eventsLeft, passClean>>
    /\ WFrame
    /\ Silent

\* processAddUpdate: oldObj, exist, err := r.store.Get(event.Data), and the
\* return on err
PauGet(w, d) ==
    LET g == CacheGet(dataMap, d)
    IN  IF g.err # "nil"
        THEN UNCHANGED <<wpc, wev, wOld, wExist>>
        ELSE /\ wev' = [wev EXCEPT ![w] = d]
             /\ wOld' = [wOld EXCEPT ![w] = g.item]
             /\ wExist' = [wExist EXCEPT ![w] = g.exists]
             /\ wpc' = [wpc EXCEPT ![w] = "pauPut"]

DelGetUnchecked(w, d) ==
    IF KeyFails(d)
    THEN NoReport /\ UNCHANGED <<wpc, wev, wOld, wExist>>
    ELSE /\ wev' = [wev EXCEPT ![w] = d]
         /\ wOld' = [wOld EXCEPT ![w] = CacheGet(dataMap, d).item]
         /\ wExist' = [wExist EXCEPT ![w] = TRUE]
         /\ wpc' = [wpc EXCEPT ![w] = "delDelete"]
         /\ NoReport

\* processDeletion: oldObj, exist, err := r.store.Get(event.Data), and the
\* return on err; without an entry only line 217 is left to run
DelGet(w, d) ==
    LET g == CacheGet(dataMap, d)
    IN  IF g.err # "nil"
        THEN NoReport /\ UNCHANGED <<wpc, wev, wOld, wExist>>
        ELSE IF g.exists
             THEN /\ wev' = [wev EXCEPT ![w] = d]
                  /\ wOld' = [wOld EXCEPT ![w] = g.item]
                  /\ wExist' = [wExist EXCEPT ![w] = TRUE]
                  /\ wpc' = [wpc EXCEPT ![w] = "delDelete"]
                  /\ NoReport
             ELSE ReportLost /\ UNCHANGED <<wpc, wev, wOld, wExist>>

\* case event, ok := <-channel: switch event.Type, as far as the Get of
\* processAddUpdate or processDeletion
WEvent(w) ==
    /\ wpc[w] = "loop"
    /\ eventsLeft > 0
    /\ eventsLeft' = eventsLeft - 1
    /\ \E t \in EventTypes, d \in BackendObjects :
         CASE t \in {"Sync", "Added", "Updated"} ->
                recv' = Event(t, d) /\ PauGet(w, d) /\ NoReport
           [] t = "Deleted" ->
                recv' = Event(t, d) /\ DelGet(w, d)
           [] OTHER ->
                /\ recv' = Event(t, Nil)
                /\ NoReport
                /\ UNCHANGED <<wpc, wev, wOld, wExist>>
    /\ Quiet
    /\ UNCHANGED <<dataMap, underWatch, sub, passClean>>
    /\ WFrame

\* processAddUpdate: r.store.Update(event.Data) or r.store.Add(event.Data)
WPauPut(w) ==
    /\ wpc[w] = "pauPut"
    /\ dataMap' = IF wExist[w] THEN CacheUpdate(dataMap, wev[w]).map
                               ELSE CacheAdd(dataMap, wev[w]).map
    /\ passClean' = FALSE
    /\ wpc' = [wpc EXCEPT ![w] = "pauNotify"]
    /\ UNCHANGED <<underWatch, wev, wOld, wExist, sub, eventsLeft>>
    /\ WFrame
    /\ Silent

\* processAddUpdate: r.handler.OnUpdate(oldObj, event.Data) or OnAdd(event.Data)
WPauNotify(w) ==
    /\ wpc[w] = "pauNotify"
    /\ IF wExist[w]
       THEN Fire(Entry("update", wOld[w], wev[w]))
       ELSE Fire(Entry("add", Nil, wev[w]))
    /\ BackToLoop(w)
    /\ UNCHANGED <<dataMap, underWatch, sub, eventsLeft, passClean>>
    /\ WFrame
    /\ NoReport
    /\ NoRecv

\* processDeletion: r.store.Delete(event.Data)
WDelDelete(w) ==
    /\ wpc[w] = "delDelete"
    /\ dataMap' = CacheDelete(dataMap, wev[w]).map
    /\ passClean' = FALSE
    /\ wpc' = [wpc EXCEPT ![w] = "delNotify"]
    /\ UNCHANGED <<underWatch, wev, wOld, wExist, sub, eventsLeft>>
    /\ WFrame
    /\ Silent

DeleteArgEvent(old, data) == data

\* the object processDeletion hands to OnDelete
DeleteArg(old, data) == IF IsZookeeper(data) THEN old ELSE data

\* processDeletion: r.handler.OnDelete, then line 217
WDelNotify(w) ==
    /\ wpc[w] = "delNotify"
    /\ Fire(Entry("delete", Nil, DeleteArg(wOld[w], wev[w])))
    /\ ReportLost
    /\ NoRecv
    /\ BackToLoop(w)
    /\ UNCHANGED <<dataMap, underWatch, sub, eventsLeft, passClean>>
    /\ WFrame

(* --------------------------- the Reflector ---------------------------- *)
RunStep ==
    \/ RunStart
    \/ ListGet
    \/ ListPut
    \/ ListNotify
    \/ RunSpawnFirst
    \/ RunExit
    \/ RunSyncTick
    \/ RunWatchTick

WatchStep(w) ==
    \/ WCheck(w)
    \/ WSet(w)
    \/ WWatch(w)
    \/ WCancel(w)
    \/ WClosed(w)
    \/ WEvent(w)
    \/ WPauPut(w)
    \/ WPauNotify(w)
    \/ WDelDelete(w)
    \/ WDelNotify(w)

Next ==
    \/ RunStep
    \/ Stop
    \/ \E w \in Watchers : WatchStep(w)

Spec == Init /\ [][Next]_vars

(* ------------------- the Reflector, scheduled fairly ------------------ *)
\* NewReflector, with the budgets of the fair specification
FairInit ==
    /\ dataMap = EmptyMap
    /\ cxtDone = FALSE
    /\ underWatch = FALSE
    /\ rpc = "idle"
    /\ rret = "spawn"
    /\ objs = <<>>
    /\ rOld = Nil
    /\ rExist = FALSE
    /\ wpc = [w \in Watchers |-> "none"]
    /\ wev = [w \in Watchers |-> Nil]
    /\ wOld = [w \in Watchers |-> Nil]
    /\ wExist = [w \in Watchers |-> FALSE]
    /\ sub = [w \in Watchers |-> "none"]
    /\ recv = NoEvent
    /\ fired = NoEntry
    /\ adds = [k \in Keys |-> 0]
    /\ last = [k \in Keys |-> "none"]
    /\ lost = FALSE
    /\ listsLeft = FairLists
    /\ eventsLeft = FairEvents
    /\ listCap = FairListLen
    /\ passClean = FALSE
    /\ InitCallersIdle

\* the goroutine of Run goes on once it can; each case of its select that
\* is ready again and again is chosen in the end, as the select of Go
\* chooses among the ready cases at random
FairRun ==
    /\ WF_vars(ListGet \/ ListPut \/ ListNotify \/ RunSpawnFirst)
    /\ SF_vars(RunExit)
    /\ SF_vars(RunWatchTick)

\* a handleWatch goroutine goes on once it can, Watch returns, and the
\* cxt.Done() case of its select is chosen in the end; that the channel
\* delivers an event or is closed is up to the backend
FairWatch(w) ==
    /\ WF_vars(WCheck(w) \/ WSet(w) \/ WWatch(w) \/ WPauPut(w) \/ WPauNotify(w)
                  \/ WDelDelete(w) \/ WDelNotify(w))
    /\ SF_vars(WCancel(w))

FairSpec ==
    /\ FairInit
    /\ [][Next]_vars
    /\ FairRun
    /\ \A w \in Watchers : FairWatch(w)

(* ----------------------- callers of the Cache ------------------------- *)
Callers == 1 .. NumCallers

\* the sequences over S of length n at most
RECURSIVE SeqsUpTo(_, _)
SeqsUpTo(S, n) ==
    IF n = 0
    THEN {<<>>}
    ELSE LET shorter == SeqsUpTo(S, n - 1)
         IN  shorter \cup
             {Append(q, x) : q \in {t \in shorter : Len(t) = n - 1}, x \in S}

\* methods that derive the key of their argument before they lock
KeyedMethods == {"Add", "Update", "Delete", "Get"}

\* methods that take c.lock.Lock(); the others take c.lock.RLock()
LockMethods == {"Add", "Update", "Delete", "Clear", "Replace", "Reset"}

Methods == KeyedMethods \cup
           {"GetByKey", "List", "ListKeys", "Num", "Clear", "Replace", "Reset"}

\* the arguments a caller may give a method
ArgsOf(m) ==
    CASE m \in KeyedMethods -> Objects
      [] m = "GetByKey" -> Keys
      [] m \in {"Replace", "Reset"} -> SeqsUpTo(Objects, MaxItems)
      [] OTHER -> {Nil}

\* what a method returns: the fields it does not return are left empty
Ret(err, item, exists, all) ==
    [err |-> err, item |-> item, exists |-> exists, all |-> all]

NoRet == Ret("none", Nil, FALSE, {})

InitCallers ==
    /\ lock = NoLock
    /\ cpc = [c \in Callers |-> "idle"]
    /\ cop = [c \in Callers |-> "none"]
    /\ carg = [c \in Callers |-> Nil]
    /\ cret = [c \in Callers |-> NoRet]

\* a method is called: key, err := c.keyFunc(obj) and the return on err, for
\* the methods that derive a key first
Call(c, m, arg) ==
    /\ cpc[c] = "idle"
    /\ cop' = [cop EXCEPT ![c] = m]
    /\ IF m \in KeyedMethods /\ KeyFails(arg)
       THEN /\ cret' = [cret EXCEPT ![c] = Ret("KeyError", Nil, FALSE, {})]
            /\ UNCHANGED <<cpc, carg>>
       ELSE /\ cret' = [cret EXCEPT ![c] = NoRet]
            /\ carg' = [carg EXCEPT ![c] = arg]
            /\ cpc' = [cpc EXCEPT ![c] = "lock"]
    /\ UNCHANGED <<dataMap, lock>>

\* c.lock.Lock() or c.lock.RLock()
Acquire(c) ==
    /\ cpc[c] = "lock"
    /\ lock.writers = {}
    /\ IF cop[c] \in LockMethods
       THEN /\ lock.readers = {}
            /\ lock' = [lock EXCEPT !.writers = {c}]
       ELSE lock' = [lock EXCEPT !.readers = @ \cup {c}]
    /\ cpc' = [cpc EXCEPT ![c] = "held"]
    /\ UNCHANGED <<dataMap, cop, carg, cret>>

\* c.lock.Unlock() or c.lock.RUnlock(), deferred
Release(c) ==
    lock' = IF cop[c] \in LockMethods
            THEN [lock EXCEPT !.writers = {}]
            ELSE [lock EXCEPT !.readers = @ \ {c}]

\* what the body of method m does to dataMap under the lock
BodyMap(m, arg) ==
    CASE m = "Add" -> CacheAdd(dataMap, arg).map
      [] m = "Update" -> CacheUpdate(dataMap, arg).map
      [] m = "Delete" -> CacheDelete(dataMap, arg).map
      [] m = "Clear" -> CacheClear(dataMap)
      [] m = "Replace" -> CacheReplace(dataMap, arg).map
      [] m = "Reset" -> CacheReset(dataMap, arg).map
      [] OTHER -> dataMap

\* what method m returns
BodyRet(m, arg) ==
    CASE m = "Add" -> Ret(CacheAdd(dataMap, arg).err, Nil, FALSE, {})
      [] m = "Update" -> Ret(CacheUpdate(dataMap, arg).err, Nil, FALSE, {})
      [] m = "Delete" -> Ret(CacheDelete(dataMap, arg).err, Nil, FALSE, {})
      [] m = "Get" ->
            LET g == CacheGet(dataMap, arg)
            IN  Ret(g.err, g.item, g.exists, {})
      [] m = "GetByKey" ->
            LET g == CacheGetByKey(dataMap, arg)
            IN  Ret(g.err, g.item, g.exists, {})
      [] m = "List" -> Ret("nil", Nil, FALSE, CacheList(dataMap))
      [] m = "ListKeys" -> Ret("nil", Nil, FALSE, CacheListKeys(dataMap))
      [] m = "Num" -> Ret("nil", Nil, FALSE, {CacheNum(dataMap)})
      [] m = "Clear" -> Ret("nil", Nil, FALSE, {})
      [] m = "Replace" -> Ret(CacheReplace(dataMap, arg).err, Nil, FALSE, {})
      [] m = "Reset" -> Ret(CacheReset(dataMap, arg).err, Nil, FALSE, {})

\* the body of the method under the lock, the deferred unlock and the return
Body(c) ==
    /\ cpc[c] = "held"
    /\ dataMap' = BodyMap(cop[c], carg[c])
    /\ cret' = [cret EXCEPT ![c] = BodyRet(cop[c], carg[c])]
    /\ Release(c)
    /\ cpc' = [cpc EXCEPT ![c] = "idle"]
    /\ carg' = [carg EXCEPT ![c] = Nil]
    /\ UNCHANGED cop

InitStore ==
    /\ dataMap = EmptyMap
    /\ InitReflector
    /\ InitCallers
    /\ todo = <<>>
    /\ done = <<>>

CallAny(c) ==
    /\ \E m \in Methods : \E arg \in ArgsOf(m) : Call(c, m, arg)
    /\ UNCHANGED <<rvars, todo, done>>

AcquireAny(c) == Acquire(c) /\ UNCHANGED <<rvars, todo, done>>

BodyAny(c) == Body(c) /\ UNCHANGED <<rvars, todo, done>>

NextStore == \E c \in Callers : CallAny(c) \/ AcquireAny(c) \/ BodyAny(c)

SpecStore == InitStore /\ [][NextStore]_vars

(* ---------------- callers adding objects of distinct keys -------------- *)
\* the keys of the objects added
AddKeys == Keys \cup {"c"}

\* the objects added: one for each key
AddObjects == [key : AddKeys, zk : {FALSE}]

\* the ways to share objects of pairwise distinct keys out to the callers
Shares ==
    {t \in [Callers -> SeqsUpTo(AddObjects, MaxAdds)] :
        /\ \A c \in Callers : \A i, j \in 1 .. Len(t[c]) :
              i # j => keyFunc(t[c][i]) # keyFunc(t[c][j])
        /\ \A c, d \in Callers : \A i \in 1 .. Len(t[c]) : \A j \in 1 .. Len(t[d]) :
              c # d => keyFunc(t[c][i]) # keyFunc(t[d][j])}

InitAddN ==
    /\ dataMap = EmptyMap
    /\ InitReflector
    /\ InitCallers
    /\ todo \in Shares
    /\ done = [c \in Callers |-> 0]

\* the caller calls Add for its next object
CallAdd(c) ==
    /\ done[c] < Len(todo[c])
    /\ Call(c, "Add", todo[c][done[c] + 1])
    /\ UNCHANGED <<rvars, todo, done>>

\* the Add call returns
BodyAdd(c) ==
    /\ Body(c)
    /\ done' = [done EXCEPT ![c] = @ + 1]
    /\ UNCHANGED <<rvars, todo>>

NextAddN == \E c \in Callers : CallAdd(c) \/ AcquireAny(c) \/ BodyAdd(c)

SpecAddN == InitAddN /\ [][NextAddN]_vars

(* ------------------------------ claims -------------------------------- *)
\* the pass is in its for loop
InPass == rpc \in {"get", "put", "notify"}

\* no handleWatch goroutine is in the select of its event loop
NoWatcherJustActed == \A w \in Watchers : wpc[w] # "loop"

\* the index of the last element of list with the key of list[i]
LastWithKey(list, i) ==
    CHOOSE j \in 1 .. Len(list) :
        /\ keyFunc(list[j]) = keyFunc(list[i])
        /\ \A n \in 1 .. Len(list) :
              keyFunc(list[n]) = keyFunc(list[i]) => n <= j

\* C1: two OnAdd calls for one key never occur without an OnDelete call for
\* that key between them, whatever the interleaving of the resync pass and
\* the watch loop.
C1_NoDuplicateAdd == \A k \in Keys : adds[k] <= 1

\* C2: in a pass that no watch goroutine writes the store during, each obj is
\* classified by what the store holds for its key just before the write: the
\* write sets the key to obj and leaves the other keys alone; with an entry v
\* the one call made is OnUpdate(v, obj), without one it is OnAdd(obj); the
\* Get and the write call nothing; and when the pass returns, the key of every
\* obj of the list maps to the last obj of the list with that key.
C2_CleanPassClassifies ==
    [][ /\ (passClean /\ rpc = "put" /\ rpc' = "notify") =>
              LET k == keyFunc(Obj)
              IN  /\ rExist = (k \in DOMAIN dataMap)
                  /\ rExist => rOld = dataMap[k]
                  /\ DOMAIN dataMap' = (DOMAIN dataMap) \cup {k}
                  /\ dataMap'[k] = Obj
                  /\ \A x \in (DOMAIN dataMap) \ {k} : dataMap'[x] = dataMap[x]
                  /\ fired' = NoEntry
        /\ (passClean /\ rpc = "notify" /\ rpc' # "notify") =>
              /\ dataMap' = dataMap
              /\ fired' = IF rExist THEN Entry("update", rOld, Obj)
                                    ELSE Entry("add", Nil, Obj)
        /\ (passClean /\ rpc = "get" /\ (rpc' # "get" \/ objs' # objs)) =>
              /\ dataMap' = dataMap
              /\ fired' = NoEntry
        /\ (passClean /\ InPass /\ rpc' \in {"spawn", "select"}) =>
              \A i \in 1 .. Len(objs) :
                  ~KeyFails(objs[i]) =>
                      /\ keyFunc(objs[i]) \in DOMAIN dataMap'
                      /\ dataMap'[keyFunc(objs[i])] = objs[LastWithKey(objs, i)]
      ]_vars

\* C2 witness: a pass no goroutine wrote during has just called OnUpdate for
\* the first obj of its list and goes on with the second, which has the same
\* key and is another object.
C2_Witness ==
    /\ passClean
    /\ rpc = "get"
    /\ Len(objs) = 2
    /\ Reached = 2
    /\ NoWatcherJustActed
    /\ fired.op = "update"
    /\ fired.obj = objs[1]
    /\ fired.old # objs[1]
    /\ keyFunc(objs[2]) = keyFunc(objs[1])
    /\ objs[2] # objs[1]

\* the event the step took is a Deleted event with a key
TookDeleted == recv'.type = "Deleted" /\ ~KeyFails(recv'.data)

\* C3: a Deleted event whose key the store holds: processDeletion keeps the
\* cached value, the Delete removes the key from the store, and then the one
\* call made is OnDelete, of the cached value when the event's object carries
\* the annotation and of the event's object otherwise.
C3_DeletePresent ==
    [][ /\ (TookDeleted /\ keyFunc(recv'.data) \in DOMAIN dataMap) =>
              /\ \E w \in Watchers :
                    /\ wpc[w] = "loop"
                    /\ wpc'[w] = "delDelete"
                    /\ wev'[w] = recv'.data
                    /\ wOld'[w] = dataMap[keyFunc(recv'.data)]
              /\ fired' = NoEntry
        /\ \A w \in Watchers :
              (wpc[w] = "delDelete" /\ wpc'[w] # "delDelete") =>
                  /\ wpc'[w] = "delNotify"
                  /\ keyFunc(wev[w]) \notin DOMAIN dataMap'
                  /\ \A x \in (DOMAIN dataMap) \ {keyFunc(wev[w])} :
                        x \in DOMAIN dataMap' /\ dataMap'[x] = dataMap[x]
                  /\ fired' = NoEntry
        /\ \A w \in Watchers :
              (wpc[w] = "delNotify" /\ wpc'[w] # "delNotify") =>
                  /\ wpc'[w] = "loop"
                  /\ dataMap' = dataMap
                  /\ fired' = Entry("delete", Nil,
                                    IF wev[w].zk THEN wOld[w] ELSE wev[w])
      ]_vars

\* C3 witness: the Delete of an annotated Deleted event has removed the key,
\* and the value cached for it is not the event's object.
C3_Witness ==
    \E w \in Watchers :
        /\ wpc[w] = "delNotify"
        /\ wev[w].zk
        /\ wOld[w] # wev[w]
        /\ wOld[w] # Nil
        /\ keyFunc(wev[w]) \notin DOMAIN dataMap

\* C4: a Deleted event whose key the store does not hold changes nothing in
\* the store, calls nothing, and leaves every watch loop where it was, the
\* one that took the event in the select of its for loop with its
\* subscription open.
C4_DeleteAbsent ==
    [][ (TookDeleted /\ keyFunc(recv'.data) \notin DOMAIN dataMap) =>
            /\ dataMap' = dataMap
            /\ fired' = NoEntry
            /\ UNCHANGED <<adds, last, wpc, sub, underWatch, cxtDone>>
            /\ \E w \in Watchers : wpc'[w] = "loop" /\ sub'[w] = "open"
      ]_vars

\* C4 witness: the last step took a Deleted event for a key the store does
\* not hold, and the loop that took it can take the next event.
C4_Witness ==
    /\ recv.type = "Deleted"
    /\ ~KeyFails(recv.data)
    /\ keyFunc(recv.data) \notin DOMAIN dataMap
    /\ lost
    /\ eventsLeft > 0
    /\ \E w \in Watchers : wpc[w] = "loop" /\ sub[w] = "open"

\* a watch loop has ended, by the closed channel or by the failure of Watch,
\* the flag is clear and the reflector is not cancelled
LoopEnded ==
    /\ ~cxtDone
    /\ ~underWatch
    /\ \E w \in Watchers : wpc[w] = "none" /\ sub[w] \in {"stopped", "failed"}

\* a handleWatch goroutine is past the flag and at its call of Watch
AtWatch == \E w \in Watchers : wpc[w] = "watch"

\* C5: whenever a watch loop has ended and cleared the flag while the
\* reflector is not cancelled, a handleWatch goroutine comes to call Watch
\* again, unless the reflector is cancelled first; the watch tick that Run
\* handles with the flag clear is the one that launches the goroutine.
C5_WatchRecovery ==
    /\ LoopEnded ~> (AtWatch \/ cxtDone)
    /\ [][ (RunWatchTick /\ ~underWatch) =>
              \E w \in Watchers : wpc[w] = "none" /\ wpc'[w] = "check" ]_vars

\* C5 witness: after one loop ended by the closed channel and another by the
\* failure of Watch, a new goroutine is at its call of Watch.
C5_Witness ==
    /\ ~cxtDone
    /\ \E w, v \in Watchers :
          /\ sub[w] = "stopped"
          /\ wpc[w] = "watch"
          /\ sub[v] = "failed"
          /\ wpc[v] = "none"

\* Run has returned and no handleWatch goroutine is left
AllReturned == rpc = "returned" /\ \A w \in Watchers : wpc[w] = "none"

\* C6: once Stop has been called on a reflector whose Run has been called,
\* Run returns and every handleWatch goroutine exits; a Stop after the first
\* changes nothing of the reflector or the store.
C6_Shutdown ==
    /\ (cxtDone /\ rpc # "idle") ~> AllReturned
    /\ [][ (Stop /\ cxtDone) =>
              UNCHANGED <<dataMap, cxtDone, underWatch, rpc, rret, objs, rOld,
                          rExist, wpc, wev, wOld, wExist, sub, adds, last,
                          listsLeft, listCap, eventsLeft, passClean>> ]_vars

\* C6 witness: Run has returned after Stop and the watch loops of both
\* goroutines have stopped their subscriptions and exited.
C6_Witness ==
    /\ cxtDone
    /\ AllReturned
    /\ \A w \in Watchers : sub[w] = "stopped"

\* caller c runs the body of its method in this step and returns
Returns(c) == cpc[c] = "held" /\ cpc'[c] = "idle"

\* the step changes dataMap at key k at most
OnlyKeyChanges(k) ==
    /\ (DOMAIN dataMap') \ {k} = (DOMAIN dataMap) \ {k}
    /\ \A x \in (DOMAIN dataMap) \ {k} : dataMap'[x] = dataMap[x]

\* C7: the store is a finite map from key to object: Add(o) and Update(o)
\* set the key of o to o and nothing else, so that Get(o) yields (o, true);
\* Delete(o) removes the key of o if it is there, so that Get(o) yields
\* (_, false), and fails with DataNoExist and changes nothing if it is not;
\* Get and GetByKey yield what the map holds and change nothing; and a step
\* in which no writing method returns leaves the store as it is.
C7_ReferenceMap ==
    [][ /\ \A c \in Callers :
              (Returns(c) /\ cop[c] \in {"Add", "Update"}) =>
                  LET o == carg[c]
                  IN  /\ keyFunc(o) \in DOMAIN dataMap'
                      /\ dataMap'[keyFunc(o)] = o
                      /\ OnlyKeyChanges(keyFunc(o))
                      /\ cret'[c].err = "nil"
                      /\ CacheGet(dataMap', o) =
                             [item |-> o, exists |-> TRUE, err |-> "nil"]
        /\ \A c \in Callers :
              (Returns(c) /\ cop[c] = "Delete") =>
                  LET o == carg[c]
                  IN  IF keyFunc(o) \in DOMAIN dataMap
                      THEN /\ keyFunc(o) \notin DOMAIN dataMap'
                           /\ OnlyKeyChanges(keyFunc(o))
                           /\ cret'[c].err = "nil"
                           /\ ~CacheGet(dataMap', o).exists
                      ELSE /\ dataMap' = dataMap
                           /\ cret'[c].err = "DataNoExist"
        /\ \A c \in Callers :
              (Returns(c) /\ cop[c] = "Get") =>
                  /\ dataMap' = dataMap
                  /\ cret'[c].err = "nil"
                  /\ cret'[c].exists = (keyFunc(carg[c]) \in DOMAIN dataMap)
                  /\ cret'[c].exists => cret'[c].item = dataMap[keyFunc(carg[c])]
        /\ \A c \in Callers :
              (Returns(c) /\ cop[c] = "GetByKey") =>
                  /\ dataMap' = dataMap
                  /\ cret'[c].err = "nil"
                  /\ cret'[c].exists = (carg[c] \in DOMAIN dataMap)
                  /\ cret'[c].exists => cret'[c].item = dataMap[carg[c]]
        /\ (\A c \in Callers : ~(Returns(c) /\ cop[c] \in LockMethods)) =>
              dataMap' = dataMap
      ]_vars

\* C7 witness: a Delete of an absent key has failed with DataNoExist while
\* another caller's Get has found the object that an Add or Update put there.
C7_Witness ==
    \E c, d \in Callers :
        /\ cpc[c] = "idle" /\ cop[c] = "Delete" /\ cret[c].err = "DataNoExist"
        /\ cpc[d] = "idle" /\ cop[d] = "Get" /\ cret[d].exists
        /\ cret[d].item.zk
        /\ dataMap # EmptyMap

\* the items of list before the first one whose key derivation fails
GoodPrefix(list) ==
    LET bad == {i \in 1 .. Len(list) : KeyFails(list[i])}
    IN  IF bad = {}
        THEN list
        ELSE SubSeq(list, 1, (CHOOSE i \in bad : \A j \in bad : i <= j) - 1)

\* map m holds, for the key of every item of list, the last item with the key
HoldsLast(m, list) ==
    \A i \in 1 .. Len(list) :
        /\ keyFunc(list[i]) \in DOMAIN m
        /\ m[keyFunc(list[i])] = list[LastWithKey(list, i)]

\* the keys of the items of list
KeysOf(list) == {keyFunc(list[i]) : i \in 1 .. Len(list)}

\* C8: Reset(items) leaves exactly the entries of the longest prefix of items
\* whose keys all derive, whatever the store held, and returns KeyError
\* exactly when the key derivation of some item fails.
C8_Reset ==
    [][ \A c \in Callers :
            (Returns(c) /\ cop[c] = "Reset") =>
                LET items == carg[c]
                    good == GoodPrefix(items)
                IN  /\ DOMAIN dataMap' = KeysOf(good)
                    /\ HoldsLast(dataMap', good)
                    /\ CacheListKeys(dataMap') = KeysOf(good)
                    /\ (cret'[c].err = "KeyError") =
                           (\E i \in 1 .. Len(items) : KeyFails(items[i]))
                    /\ cret'[c].err \in {"nil", "KeyError"}
      ]_vars

\* C8 witness: a Reset has failed with KeyError at its first item and has
\* left the store empty, after the last call of another caller, an Add, had
\* put an entry.
C8_Witness ==
    \E c \in Callers :
        /\ cpc[c] = "idle"
        /\ cop[c] = "Reset"
        /\ cret[c].err = "KeyError"
        /\ dataMap = EmptyMap
        /\ \E d \in Callers :
              d # c /\ cop[d] = "Add" /\ cpc[d] = "idle" /\ cret[d].err = "nil"

Shared == UNION {{todo[c][i] : i \in 1 .. Len(todo[c])} : c \in DOMAIN todo}

\* every caller's Add calls have returned
AllAdded == \A c \in DOMAIN todo : done[c] = Len(todo[c]) /\ cpc[c] = "idle"

\* C10: once the N Add calls of objects with pairwise distinct keys have all
\* returned, Num is N and Get finds every object under its key.
C10_DistinctAdds ==
    AllAdded =>
        /\ CacheNum(dataMap) = Cardinality(Shared)
        /\ \A o \in Shared :
              CacheGet(dataMap, o) = [item |-> o, exists |-> TRUE, err |-> "nil"]

\* C10 witness: three Add calls by two callers have all returned.
C10_Witness ==
    /\ DOMAIN todo = Callers
    /\ AllAdded
    /\ Cardinality(Shared) = 3
    /\ \A c \in Callers : Len(todo[c]) >= 1

\* the first pass, the listAllData of line 66, has not returned yet
FirstPassOpen == rpc = "idle" \/ (InPass /\ rret = "spawn")

\* a handleWatch goroutine has been launched or Watch has been called
WatchBegun == \E w \in Watchers : wpc[w] # "none" \/ sub[w] # "none"

\* C11: until the first pass has called List and returned, no handleWatch
\* goroutine is launched, Watch is not called and Run is not in its select;
\* Run comes to its select only from the launch of the first goroutine or
\* from a later pass, and the first goroutine is launched only after the
\* first pass.
C11_StartupOrder ==
    /\ [](FirstPassOpen => (~WatchBegun /\ ~underWatch /\ rpc # "select"))
    /\ []((WatchBegun \/ rpc \in {"spawn", "select", "returned"}) =>
              listsLeft < MaxLists)
    /\ [][ /\ (rpc # "select" /\ rpc' = "select") =>
                 (rpc = "spawn" \/ (InPass /\ rret = "select"))
           /\ (~WatchBegun /\ WatchBegun') => (rpc = "spawn" /\ rpc' = "select")
         ]_vars

\* C11 witness: the first pass has put an entry in the store and returned,
\* and Run is about to launch the first handleWatch goroutine.
C11_Witness ==
    /\ rpc = "spawn"
    /\ dataMap # EmptyMap
    /\ last["a"] = "add"
    /\ ~WatchBegun

\* the step is one of listAllData: the call of List, or a step of its loop
PassStep ==
    \/ listsLeft' # listsLeft
    \/ InPass /\ (rpc' # rpc \/ objs' # objs)

\* C12: no step of listAllData takes a key out of the store or calls
\* OnDelete; a key leaves the store only in the Delete of processDeletion for
\* a Deleted event with that key, so an entry whose key no later list holds
\* and no Deleted event names stays in the store, with its value.
C12_PassNeverRemoves ==
    [][ /\ PassStep =>
              /\ DOMAIN dataMap \subseteq DOMAIN dataMap'
              /\ fired'.op # "delete"
              /\ \A k \in DOMAIN dataMap :
                    dataMap'[k] # dataMap[k] =>
                        (rpc = "put" /\ ~KeyFails(Obj) /\ keyFunc(Obj) = k)
        /\ \A k \in DOMAIN dataMap :
              k \notin DOMAIN dataMap' =>
                  \E w \in Watchers :
                      /\ wpc[w] = "delDelete"
                      /\ wpc'[w] = "delNotify"
                      /\ keyFunc(wev[w]) = k
      ]_vars

\* C12 witness: the store holds the entry the first pass added, no event
\* has been delivered, and a resync pass is at the last object of a list in
\* which no object has key "a".
C12_Witness ==
    /\ rpc = "get"
    /\ rret = "select"
    /\ Len(objs) = MaxListLen
    /\ Reached = MaxListLen
    /\ \A i \in 1 .. Len(objs) : KeyFails(objs[i])
    /\ "a" \in DOMAIN dataMap
    /\ last["a"] = "add"
    /\ eventsLeft = MaxEvents

\* the handleWatch goroutines between the reentrancy check they passed and
\* their exit
ActiveLoops == {w \in Watchers : wpc[w] \notin {"none", "check"}}

\* C13: at most one handleWatch goroutine is between the reentrancy check it
\* passed and its exit.
C13_AtMostOneLoop == Cardinality(ActiveLoops) <= 1

\* what of key k and old value old the store holds before a write classified
\* by exist
ReadStillHolds(exist, k, old) ==
    IF exist
    THEN k \in DOMAIN dataMap /\ dataMap[k] = old
    ELSE k \notin DOMAIN dataMap

\* C14: when the pass or a watch loop writes a key as an update, the store
\* holds just before the write the entry that is then passed to OnUpdate as
\* the old value; when it writes a key as an add, the store holds no entry
\* for the key just before the write; when it deletes a key, the store holds
\* the key just before the Delete.
C14_AtomicReadClassifyWrite ==
    [][ /\ (rpc = "put" /\ rpc' = "notify") =>
              ReadStillHolds(rExist, keyFunc(Obj), rOld)
        /\ \A w \in Watchers :
              (wpc[w] = "pauPut" /\ wpc'[w] = "pauNotify") =>
                  ReadStillHolds(wExist[w], keyFunc(wev[w]), wOld[w])
        /\ \A w \in Watchers :
              (wpc[w] = "delDelete" /\ wpc'[w] = "delNotify") =>
                  keyFunc(wev[w]) \in DOMAIN dataMap
      ]_vars

\* the step calls List
ListCalled == listsLeft' # listsLeft

\* the step calls List, and List fails or yields nothing: listAllData returns
\* without entering its loop
ListYieldsNone == ListCalled /\ rpc' \notin {"get", "put", "notify"}

\* C15: a pass whose List fails leaves the store as it is, calls no handler
\* and returns to Run, which goes on: to the launch of the first goroutine
\* after the first pass and to its select after a later one; List is called
\* only by Run at its start and by the resync tick handled in the select,
\* never by the pass again.
C15_ListFailure ==
    [][ /\ ListYieldsNone =>
              /\ dataMap' = dataMap
              /\ fired' = NoEntry
              /\ rpc' = (IF rpc = "idle" THEN "spawn" ELSE "select")
              /\ objs' = <<>>
        /\ ListCalled => rpc \in {"idle", "select"}
      ]_vars

\* C15 witness: the List of the first pass failed, nothing is in the store
\* and no handler was called, and the resync tick has called List again.
C15_Witness ==
    /\ rpc = "get"
    /\ rret = "select"
    /\ listsLeft = MaxLists - 2
    /\ dataMap = EmptyMap
    /\ \A k \in Keys : last[k] = "none"
    /\ eventsLeft = MaxEvents

\* the places of a handleWatch goroutine after Watch succeeded
LoopPlaces == {"loop", "pauPut", "pauNotify", "delDelete", "delNotify"}

\* C16: a goroutine holds an open subscription exactly while it is in its
\* event loop; the subscription is stopped in the step in which the goroutine
\* exits, by cxt.Done() or by the closed channel, and in no other step, and
\* that step clears the flag; so every subscription acquired is stopped once
\* and none is left open by a goroutine that has exited.
C16_SubscriptionReleased ==
    /\ [](\A w \in Watchers : (sub[w] = "open") <=> (wpc[w] \in LoopPlaces))
    /\ [][ \A w \in Watchers :
              /\ (sub[w] = "open" /\ wpc'[w] = "none") =>
                    (sub'[w] = "stopped" /\ underWatch' = FALSE)
              /\ (sub[w] # "stopped" /\ sub'[w] = "stopped") =>
                    (sub[w] = "open" /\ wpc[w] = "loop" /\ wpc'[w] = "none")
         ]_vars

\* C16 witness: the only goroutine that got a subscription has left its loop
\* on the closed channel, the reflector not being cancelled: the subscription
\* is stopped and the flag is clear.
C16_Witness ==
    /\ ~cxtDone
    /\ ~underWatch
    /\ \E w \in Watchers :
          /\ sub[w] = "stopped"
          /\ wpc[w] = "none"
          /\ \A v \in Watchers : v # w => (sub[v] = "none" /\ wpc[v] = "none")

\* the step launches a handleWatch goroutine
Launched == \E w \in Watchers : wpc[w] = "none" /\ wpc'[w] = "check"

\* the step calls Watch
WatchCalled == \E w \in Watchers : wpc[w] = "watch" /\ wpc'[w] # "watch"

\* C17: once Stop has been called, no step calls List, launches a handleWatch
\* goroutine or calls Watch, whether Stop came while Run was in its select
\* or before Run was called.
C17_StoppedTerminal ==
    [][ cxtDone => (~ListCalled /\ ~Launched /\ ~WatchCalled) ]_vars

\* the loop of listAllData goes on to the next obj of the list if there is
\* one, and the pass returns if there is none
GoesOn ==
    IF Reached < Len(objs)
    THEN /\ rpc' = "get"
         /\ Len(objs') = Len(objs)
         /\ \A j \in 1 .. Reached : objs'[j] = objs[j]
         /\ objs'[Reached + 1] # Nil
    ELSE rpc' = rret

\* C18: an obj of the list whose key derivation fails in Get is skipped,
\* without a store write or a handler call by the pass, and the loop goes on;
\* every obj whose key derives is written to the store under its key and
\* then notified as an add or an update, whatever was skipped before it, and
\* the loop goes on after it too.
C18_KeyFailureSkipsOne ==
    [][ /\ (rpc = "get" /\ (rpc' # "get" \/ objs' # objs)) =>
              IF KeyFails(Obj)
              THEN dataMap' = dataMap /\ fired' = NoEntry /\ GoesOn
              ELSE dataMap' = dataMap /\ fired' = NoEntry /\ rpc' = "put"
                     /\ objs' = objs
        /\ (rpc = "put" /\ rpc' # "put") =>
              /\ rpc' = "notify"
              /\ objs' = objs
              /\ keyFunc(Obj) \in DOMAIN dataMap'
              /\ dataMap'[keyFunc(Obj)] = Obj
        /\ (rpc = "notify" /\ rpc' # "notify") =>
              /\ fired'.op \in {"add", "update"}
              /\ fired'.obj = Obj
              /\ GoesOn
      ]_vars

\* C18 witness: in the first pass the first obj of a list of two had no key
\* and was skipped, leaving the store empty and the handler uncalled, and the
\* second obj has been written to the store and is about to be notified.
C18_Witness ==
    /\ rret = "spawn"
    /\ rpc = "notify"
    /\ Len(objs) = 2
    /\ Reached = 2
    /\ KeyFails(objs[1])
    /\ ~KeyFails(objs[2])
    /\ dataMap["a"] = objs[2]
    /\ last["a"] = "none"

\* C19: the "lost local cache" report is made exactly in the handling of a
\* Deleted event whose key the store does not hold: the step that takes such
\* an event reports it, and no handling of a Deleted event whose entry was
\* there, deleted and notified by OnDelete, reports it.
C19_LostCacheOnlyWhenAbsent ==
    [][ /\ (TookDeleted /\ keyFunc(recv'.data) \notin DOMAIN dataMap) => lost'
        /\ lost' => (TookDeleted /\ keyFunc(recv'.data) \notin DOMAIN dataMap)
      ]_vars

\* no pass is under way and no goroutine is in the handling of an event
Quiescent ==
    /\ ~InPass
    /\ \A w \in Watchers : wpc[w] \in {"none", "check", "set", "watch", "loop"}

\* C20: when no pass and no event is part-way through, the store holds a key
\* exactly if the last handler call for the key was OnAdd or OnUpdate.
C20_StoreAgreesWithCalls ==
    Quiescent =>
        \A k \in Keys : (k \in DOMAIN dataMap) <=> (last[k] \in {"add", "update"})

=============================================================================
